---- MODULE Spec2Model ----
(***************************************************************************)
(* Model of the key-value benchmark driver of src/main.go: main runs a     *)
(* write phase (n goroutines running runSet) and then a read-verify phase  *)
(* (n goroutines running runGet), each bounded by a context deadline, and  *)
(* prints the counters of a Stats shared by the phase's goroutines.        *)
(*                                                                         *)
(* Stats.ok and Stats.err are uint64 in the source; the counters of this   *)
(* model stay below MaxCalls, far from 2^64, so no wrap-around is taken.   *)
(***************************************************************************)
EXTENDS Naturals, Integers, Sequences, FiniteSets, Bags, TLC

\* ------------------------------------------------------------------ bounds
\* Number of workers per phase (const n = 100 in main; a small pool here).
n == 2
\* Loop iterations that pass the ctx.Done() check, over the whole run.
MaxCalls == 2
\* Whole seconds by which time.Since(start) may exceed the phase duration.
MaxLag == 1

\* const d = 10 * time.Second, in seconds.
d == 10

VARIABLES
    kvName,   \* the adapter behind kv: "postgresql" (sqlKV) or "redis" (redisKV)
    store,    \* the backend's contents: key -> value, None where the key is absent
    mpc,      \* position of main
    phase,    \* the block main is in: "set" (lines 33-51) or "get" (lines 53-71)
    spawnI,   \* loop variable i of the spawning loop
    ctx,      \* per phase: "nil" (not derived yet), "live", "done" (deadline fired)
    s,        \* per phase: the Stats of the block, [ok, err]
    reg,      \* main's loads of s.ok / s.err for the expression being evaluated
    printed,  \* per phase: the summary lines printed so far
    log,      \* bag of the lines Stats.Err printed
    wpc,      \* per phase and worker: position of the goroutine
    budget,   \* loop iterations still allowed by MaxCalls
    issued,   \* per phase: backend calls made
    failed,   \* some call of kv.Set or kv.Get has returned an error
    calls,    \* per phase: iterations that ended in Stats.OK / in Stats.Err
    timedOut, \* per phase: calls that failed only because the deadline had fired
    nWrong,   \* per worker: its Get calls that returned, without error, a value other
              \* than value_<i>, by the state of the context when they returned
    written,  \* workers whose Set has returned without error at least once
    seeded,   \* keys that held value_<i> when the read-verify context was derived
    setupErr  \* the error kv.Setup returned, Nil until then

vars == <<kvName, store, mpc, phase, spawnI, ctx, s, reg, printed, log, wpc,
          budget, issued, failed, calls, timedOut, nWrong, written, seeded,
          setupErr>>

Phases == {"set", "get"}
Workers == 0 .. (n - 1)

None == "<absent>"
Unread == -1

\* ------------------------------------------------------------- work items
\* fmt.Sprintf("key_%d", i) and fmt.Sprintf("value_%d", i)
Key(i) == "key_" \o ToString(i)
Value(i) == "value_" \o ToString(i)

Keys == {Key(i) : i \in Workers}
\* A key of the same table or keyspace that no worker is given.
Foreign == Key(n)

\* ------------------------------------------------------------------ errors
\* An error is the chain errors.Is walks: the error itself, then what it wraps.
\* <<>> is the nil error.
Nil == <<>>
DeadlineExceeded == "context deadline exceeded"
Canceled == "canceling statement due to user request"
Operational == "connection refused"
RedisNil == "redis: nil"
ErrNoRows == "sql: no rows in result set"
WrappedDeadline == "read tcp: context deadline exceeded"

\* Two slips of the comparison below: err == target, which misses a wrapped
\* target, and a test that also takes a cancellation for the target.
ErrorsIsTop(err, target) == err # Nil /\ err[1] = target
ErrorsIsAnyContext(err, target) ==
    \E k \in DOMAIN err : err[k] \in {target, Canceled}

\* errors.Is(err, target): some error of the chain is the target.
ErrorsIs(err, target) == \E k \in DOMAIN err : err[k] = target

\* err.Error(), the text fmt.Println(err) prints: the outermost error's text.
ErrorText(err) == err[1]

\* fmt.Errorf("unexpected value: %s", v): a new error that wraps nothing.
UnexpectedValue(v) == <<"unexpected value: " \o v>>


\* ------------------------------------------------------------------- Stats
\* An add that loses the update when the counter has already been written.
AtomicAddLost(x, delta) == IF x = 0 THEN x + delta ELSE x

\* atomic.AddUint64(&x, delta): one indivisible read-modify-write.
AtomicAddUint64(x, delta) == x + delta

\* Stats{}
NewStats == [ok |-> 0, err |-> 0]

\* OK counting into the wrong field.
StatsOKWrongField(st) == [st EXCEPT !.err = AtomicAddUint64(st.err, 1)]

\* func (s *Stats) OK()
StatsOK(st) == [st EXCEPT !.ok = AtomicAddUint64(st.ok, 1)]

\* Err without the test of lines 84-86: every error is counted.
StatsErrCountsAll(st, err) == [st EXCEPT !.err = AtomicAddUint64(st.err, 1)]

\* func (s *Stats) Err(err error): the counters it leaves ...
StatsErr(st, err) ==
    IF ErrorsIs(err, DeadlineExceeded)
    THEN st
    ELSE [st EXCEPT !.err = AtomicAddUint64(st.err, 1)]

\* ... and the lines it leaves on standard output.
StatsErrLog(lg, err) ==
    IF ErrorsIs(err, DeadlineExceeded)
    THEN lg
    ELSE lg (+) SetToBag({ErrorText(err)})

\* -------------------------------------------------------------- the backends
\* The errors a call returns only because the context's deadline has fired:
\* the context's own error, bare or wrapped by the client library, or the
\* server's report that it cancelled the statement.
ExpiryErrors == {<<DeadlineExceeded>>, <<WrappedDeadline, DeadlineExceeded>>, <<Canceled>>}

\* What a call can fail with: an operational failure at any time, and an
\* expiry error once the context's deadline has fired.
CallErrors(c) ==
    {<<Operational>>} \cup
    (IF c = "done"
     THEN ExpiryErrors
     ELSE {})

\* The fault-injection scenario of the specification's testable properties
\* puts a test double behind kv: a map in memory whose calls never fail and
\* whose Get answers Garbled for the key of one worker, whatever was stored.
\* The scenario takes key_5 of 100; here it is the key of the last worker.
FaultyWorker == n - 1
Garbled == "garbled"
mockKVGet(st, key) ==
    IF key = Key(FaultyWorker)
    THEN [v |-> Garbled, err |-> Nil]
    ELSE [v |-> IF st[key] = None THEN "" ELSE st[key], err |-> Nil]

\* The errors a call of the adapter of the given name can fail with.
BackendErrors(name, c) == IF name = "mock" THEN {} ELSE CallErrors(c)

\* sqlKV.Setup: drop table if exists kv; create unlogged table kv(...)
sqlKVSetup(st) == [k \in DOMAIN st |-> None]
\* redisKV.Setup: return nil (and so for the test double, which has nothing to
\* prepare)
redisKVSetup(st) == st
kvSetup(name, st) == IF name = "postgresql" THEN sqlKVSetup(st) ELSE redisKVSetup(st)
\* Only sqlKV.Setup talks to the backend, so only it can fail.
SetupErrors(name) == IF name = "postgresql" THEN {Nil, <<Operational>>} ELSE {Nil}

\* Set with its arguments confused: the key stored as the value.
kvSetKeyAsValue(st, key, value) == [st EXCEPT ![key] = key]

\* An update without its key: every row takes the value.
kvSetAllRows(st, key, value) == [k \in DOMAIN st |-> value]

\* insert ... on conflict (k) do update set v = excluded.v  /  client.Set(key, value, 0)
kvSet(st, key, value) == [st EXCEPT ![key] = value]

\* db.QueryRowContext(...).Scan(&value)
sqlQueryRow(st, key) ==
    IF st[key] = None
    THEN [v |-> "", err |-> <<ErrNoRows>>]
    ELSE [v |-> st[key], err |-> Nil]

\* sqlKV.Get: sql.ErrNoRows becomes (zero value, nil)
sqlKVGet(st, key) ==
    LET r == sqlQueryRow(st, key)
    IN  [v |-> r.v, err |-> IF ErrorsIs(r.err, ErrNoRows) THEN Nil ELSE r.err]

\* redisKV.Get: client.Get(ctx, key).Result(), redis.Nil for an absent key
redisKVGet(st, key) ==
    IF st[key] = None
    THEN [v |-> "", err |-> <<RedisNil>>]
    ELSE [v |-> st[key], err |-> Nil]

kvGet(name, st, key) ==
    IF name = "postgresql" THEN sqlKVGet(st, key)
    ELSE IF name = "redis" THEN redisKVGet(st, key)
    ELSE mockKVGet(st, key)

\* ----------------------------------------------------------- worker bodies
\* runSet without the continue of line 105: s.Err(err) falls through to s.OK().
runSetMissingContinue(st, err) ==
    IF err # Nil THEN StatsOK(StatsErr(st, err)) ELSE StatsOK(st)

\* runSet, lines 102-108: what one iteration does to the Stats and to the output
\* once kv.Set has returned err.
runSetStats(st, err) == IF err # Nil THEN StatsErr(st, err) ELSE StatsOK(st)
runSetLog(lg, err) == IF err # Nil THEN StatsErrLog(lg, err) ELSE lg

\* A comparison that lets the empty value of an absent key pass.
ValueDiffersUnlessEmpty(v, value) == v # "" /\ v # value

\* Line 129: v != value
ValueDiffers(v, value) == v # value

\* runGet without the comparison of lines 129-132.
runGetNoCompare(st, r, value) == IF r.err # Nil THEN StatsErr(st, r.err) ELSE StatsOK(st)

\* runGet, lines 123-134: the same once kv.Get has returned r = (v, err).
runGetStats(st, r, value) ==
    IF r.err # Nil THEN StatsErr(st, r.err)
    ELSE IF ValueDiffers(r.v, value) THEN StatsErr(st, UnexpectedValue(r.v))
    ELSE StatsOK(st)
runGetLog(lg, r, value) ==
    IF r.err # Nil THEN StatsErrLog(lg, r.err)
    ELSE IF ValueDiffers(r.v, value) THEN StatsErrLog(lg, UnexpectedValue(r.v))
    ELSE lg


\* -------------------------------------------------------------------- Init
\* What the backend holds before the run: nothing, or a leftover of some
\* earlier use of the same database under key_0.
Stale == "stale"
EmptyStore == [k \in Keys \cup {Foreign} |-> None]
InitStores == {EmptyStore, [EmptyStore EXCEPT ![Key(0)] = Stale]}

PerPhase(x) == [p \in Phases |-> x]
PerWorker(x) == [p \in Phases |-> [i \in Workers |-> x]]
NoLoads == [ok |-> Unread, err |-> Unread]
NoPrints == [total |-> Unread, ops |-> Unread, ok |-> Unread, err |-> Unread]

\* Loop iterations allowed over the whole run. The test double never fails,
\* so its runs branch less and can afford one iteration more.
CallBudget(name) == IF name = "mock" THEN MaxCalls + 1 ELSE MaxCalls

\* The state when main starts, with the adapter of the given name behind kv.
InitWith(name) ==
    /\ kvName = name
    /\ store \in InitStores
    /\ mpc = "setup"
    /\ phase = "set"
    /\ spawnI = 0
    /\ ctx = PerPhase("nil")
    /\ s = PerPhase(NewStats)
    /\ reg = NoLoads
    /\ printed = PerPhase(NoPrints)
    /\ log = EmptyBag
    /\ wpc = PerWorker("unspawned")
    /\ budget = CallBudget(name)
    /\ issued = PerPhase(0)
    /\ failed = FALSE
    /\ calls = PerPhase([ok |-> 0, err |-> 0, dropped |-> 0])
    /\ timedOut = PerPhase(0)
    /\ nWrong = [i \in Workers |-> [live |-> 0, done |-> 0]]
    /\ written = {}
    /\ seeded = {}
    /\ setupErr = Nil

\* Line 16: kv, err := NewSQLKV(...)
Init == InitWith("postgresql")
\* Line 17, the alternative main leaves commented out: kv, err := NewRedisKV(...)
InitRedis == InitWith("redis")
\* The fault-injection scenario: the test double, empty, behind kv.
InitMock == InitWith("mock") /\ store = EmptyStore

\* The process is alive: main has neither returned nor panicked.
Alive == mpc \notin {"exit", "panic"}

workerVars == <<wpc, budget, issued, failed, calls, timedOut, nWrong, written>>
mainVars == <<mpc, phase, spawnI, reg, printed, seeded, setupErr>>

\* -------------------------------------------------------------------- main
\* main without the check of lines 24-26: it goes on whatever Setup returned.
MainSetupGoesOn ==
    /\ mpc = "setup"
    /\ \E err \in SetupErrors(kvName) :
          /\ setupErr' = err
          /\ mpc' = "timeout"
          /\ store' = IF err # Nil THEN store ELSE kvSetup(kvName, store)
    /\ UNCHANGED <<kvName, phase, spawnI, ctx, s, reg, printed, log, seeded>>
    /\ UNCHANGED workerVars

\* Lines 22-31: err = kv.Setup(ctx); if err != nil { panic(err) }
MainSetup ==
    /\ mpc = "setup"
    /\ \E err \in SetupErrors(kvName) :
          /\ setupErr' = err
          /\ IF err # Nil
             THEN mpc' = "panic" /\ store' = store
             ELSE mpc' = "timeout" /\ store' = kvSetup(kvName, store)
    /\ UNCHANGED <<kvName, phase, spawnI, ctx, s, reg, printed, log, seeded>>
    /\ UNCHANGED workerVars

\* Lines 35-38 and 55-58: ctx, _ := context.WithTimeout(ctx, d); start; s := Stats{}
MainWithTimeout ==
    /\ mpc = "timeout"
    /\ ctx' = [ctx EXCEPT ![phase] = "live"]
    /\ s' = [s EXCEPT ![phase] = NewStats]
    /\ spawnI' = 0
    /\ mpc' = "spawn"
    /\ seeded' = IF phase = "get"
                 THEN {i \in Workers : store[Key(i)] = Value(i)}
                 ELSE seeded
    /\ UNCHANGED <<kvName, store, phase, reg, printed, log, setupErr>>
    /\ UNCHANGED workerVars

\* Lines 39-42 and 59-62: for i := 0; i < n; i++ { go run(ctx, kv, i, &s) }
MainSpawn ==
    /\ mpc = "spawn"
    /\ spawnI < n
    /\ wpc' = [wpc EXCEPT ![phase][spawnI] = "select"]
    /\ spawnI' = spawnI + 1
    /\ mpc' = IF spawnI + 1 < n THEN "spawn" ELSE "wait"
    /\ UNCHANGED <<kvName, store, phase, ctx, s, reg, printed, log, seeded, setupErr>>
    /\ UNCHANGED <<budget, issued, failed, calls, timedOut, nWrong, written>>

\* Lines 44-45 and 64-65: <-ctx.Done(); t := time.Since(start)
MainDone ==
    /\ mpc = "wait"
    /\ ctx[phase] = "done"
    /\ mpc' = "total"
    /\ reg' = NoLoads
    /\ UNCHANGED <<kvName, store, phase, spawnI, ctx, s, printed, log, seeded, setupErr>>
    /\ UNCHANGED workerVars

\* The sum s.ok+s.err of lines 47/67 and 48/68 takes two plain (non-atomic)
\* loads. They are not ordered with respect to the workers' atomic adds, nor,
\* on a weakly ordered machine, with each other: this is the first of the two.
Other(f) == IF f = "ok" THEN "err" ELSE "ok"

MainLoad(f) ==
    /\ mpc \in {"total", "ops"}
    /\ reg = NoLoads
    /\ reg' = [reg EXCEPT ![f] = s[phase][f]]
    /\ UNCHANGED <<kvName, store, mpc, phase, spawnI, ctx, s, printed, log, seeded, setupErr>>
    /\ UNCHANGED workerVars

\* Lines 47 and 67: fmt.Printf("total: %d\n", s.ok+s.err), from the second load on.
MainPrintTotal ==
    /\ mpc = "total"
    /\ \E f \in {"ok", "err"} :
          /\ reg[f] # Unread
          /\ printed' = [printed EXCEPT ![phase].total = reg[f] + s[phase][Other(f)]]
    /\ reg' = NoLoads
    /\ mpc' = "ops"
    /\ UNCHANGED <<kvName, store, phase, spawnI, ctx, s, log, seeded, setupErr>>
    /\ UNCHANGED workerVars

\* Lines 48 and 68: int64(s.ok+s.err)/int64(t/time.Second), with t >= d,
\* from the second load on.
MainPrintOps ==
    /\ mpc = "ops"
    /\ \E f \in {"ok", "err"}, lag \in 0 .. MaxLag :
          /\ reg[f] # Unread
          /\ printed' = [printed EXCEPT
                            ![phase].ops = (reg[f] + s[phase][Other(f)]) \div (d + lag)]
    /\ reg' = NoLoads
    /\ mpc' = "ok"
    /\ UNCHANGED <<kvName, store, phase, spawnI, ctx, s, log, seeded, setupErr>>
    /\ UNCHANGED workerVars

\* Lines 49 and 69: fmt.Printf("ok: %d\n", s.ok)
MainPrintOk ==
    /\ mpc = "ok"
    /\ printed' = [printed EXCEPT ![phase].ok = s[phase].ok]
    /\ mpc' = "err"
    /\ UNCHANGED <<kvName, store, phase, spawnI, ctx, s, reg, log, seeded, setupErr>>
    /\ UNCHANGED workerVars

\* Lines 50 and 70: fmt.Printf("err: %d\n", s.err); then the next block, or
\* the return of main, which ends the process and every goroutine with it.
MainPrintErr ==
    /\ mpc = "err"
    /\ printed' = [printed EXCEPT ![phase].err = s[phase].err]
    /\ mpc' = IF phase = "set" THEN "timeout" ELSE "exit"
    /\ phase' = "get"
    /\ UNCHANGED <<kvName, store, spawnI, ctx, s, reg, log, seeded, setupErr>>
    /\ UNCHANGED workerVars

\* The timer of context.WithTimeout fires: ctx.Done() is closed.
DeadlineFires(p) ==
    /\ Alive
    /\ ctx[p] = "live"
    /\ ctx' = [ctx EXCEPT ![p] = "done"]
    /\ UNCHANGED <<kvName, store, s, log>>
    /\ UNCHANGED mainVars
    /\ UNCHANGED workerVars


\* ----------------------------------------------------------------- workers
\* The case with break in place of return: break only leaves the select, and
\* the worker goes on to its backend call.
WorkerBreaks(p, i) ==
    /\ Alive
    /\ wpc[p][i] = "select"
    /\ ctx[p] = "done"
    /\ budget > 0
    /\ budget' = budget - 1
    /\ issued' = [issued EXCEPT ![p] = @ + 1]
    /\ wpc' = [wpc EXCEPT ![p][i] = "call"]
    /\ UNCHANGED <<kvName, store, ctx, s, log>>
    /\ UNCHANGED mainVars
    /\ UNCHANGED <<failed, calls, timedOut, nWrong, written>>

\* Lines 96-98 and 117-119: case <-ctx.Done(): return
WorkerReturns(p, i) ==
    /\ Alive
    /\ wpc[p][i] = "select"
    /\ ctx[p] = "done"
    /\ wpc' = [wpc EXCEPT ![p][i] = "done"]
    /\ UNCHANGED <<kvName, store, ctx, s, log>>
    /\ UNCHANGED mainVars
    /\ UNCHANGED <<budget, issued, failed, calls, timedOut, nWrong, written>>

\* Lines 99-102 and 120-123: default: the worker goes on and calls the backend.
WorkerDefault(p, i) ==
    /\ Alive
    /\ wpc[p][i] = "select"
    /\ ctx[p] # "done"
    /\ budget > 0
    /\ budget' = budget - 1
    /\ issued' = [issued EXCEPT ![p] = @ + 1]
    /\ wpc' = [wpc EXCEPT ![p][i] = "call"]
    /\ UNCHANGED <<kvName, store, ctx, s, log>>
    /\ UNCHANGED mainVars
    /\ UNCHANGED <<failed, calls, timedOut, nWrong, written>>

\* The kind of call of Stats an iteration ends in, from what the backend
\* returned: OK ("ok"), Err with an error that has context.DeadlineExceeded
\* in its chain ("dropped"), Err with any other error ("err").
Kind(r, value) ==
    IF r.err = Nil
    THEN IF r.v = value THEN "ok" ELSE "err"
    ELSE IF \E k \in DOMAIN r.err : r.err[k] = DeadlineExceeded THEN "dropped" ELSE "err"

Tally(c, kind) == [c EXCEPT ![kind] = @ + 1]

\* runSet counting into one Stats declared once for both blocks of main: the
\* Stats of whichever block main is in.
runSetOneStats(i) ==
    /\ Alive
    /\ wpc["set"][i] = "call"
    /\ \E err \in {Nil} \cup BackendErrors(kvName, ctx["set"]) :
          /\ store' = IF err = Nil THEN kvSet(store, Key(i), Value(i)) ELSE store
          /\ written' = IF err = Nil THEN written \cup {i} ELSE written
          /\ failed' = (failed \/ err # Nil)
          /\ s' = [s EXCEPT ![phase] = runSetStats(@, err)]
          /\ log' = runSetLog(log, err)
          /\ calls' = [calls EXCEPT !["set"] = Tally(@, Kind([v |-> "", err |-> err], ""))]
          /\ timedOut' = [timedOut EXCEPT !["set"] = IF err \in ExpiryErrors THEN @ + 1 ELSE @]
    /\ wpc' = [wpc EXCEPT !["set"][i] = "select"]
    /\ UNCHANGED <<kvName, ctx>>
    /\ UNCHANGED mainVars
    /\ UNCHANGED <<budget, issued, nWrong>>

\* runSet with a return in place of the continue of line 105: the worker
\* gives up at its first failed Set.
runSetGivesUp(i) ==
    /\ Alive
    /\ wpc["set"][i] = "call"
    /\ \E err \in {Nil} \cup BackendErrors(kvName, ctx["set"]) :
          /\ store' = IF err = Nil THEN kvSet(store, Key(i), Value(i)) ELSE store
          /\ written' = IF err = Nil THEN written \cup {i} ELSE written
          /\ failed' = (failed \/ err # Nil)
          /\ s' = [s EXCEPT !["set"] = runSetStats(@, err)]
          /\ log' = runSetLog(log, err)
          /\ calls' = [calls EXCEPT !["set"] = Tally(@, Kind([v |-> "", err |-> err], ""))]
          /\ timedOut' = [timedOut EXCEPT !["set"] = IF err \in ExpiryErrors THEN @ + 1 ELSE @]
          /\ wpc' = [wpc EXCEPT !["set"][i] = IF err = Nil THEN "select" ELSE "done"]
    /\ UNCHANGED <<kvName, ctx>>
    /\ UNCHANGED mainVars
    /\ UNCHANGED <<budget, issued, nWrong>>

\* Lines 102-108, one iteration of runSet from the return of kv.Set on:
\* err := kv.Set(ctx, key, value); if err != nil { s.Err(err); continue }; s.OK()
runSet(i) ==
    /\ Alive
    /\ wpc["set"][i] = "call"
    /\ \E err \in {Nil} \cup BackendErrors(kvName, ctx["set"]) :
          /\ store' = IF err = Nil THEN kvSet(store, Key(i), Value(i)) ELSE store
          /\ written' = IF err = Nil THEN written \cup {i} ELSE written
          /\ failed' = (failed \/ err # Nil)
          /\ s' = [s EXCEPT !["set"] = runSetStats(@, err)]
          /\ log' = runSetLog(log, err)
          /\ calls' = [calls EXCEPT !["set"] = Tally(@, Kind([v |-> "", err |-> err], ""))]
          /\ timedOut' = [timedOut EXCEPT !["set"] = IF err \in ExpiryErrors THEN @ + 1 ELSE @]
    /\ wpc' = [wpc EXCEPT !["set"][i] = "select"]
    /\ UNCHANGED <<kvName, ctx>>
    /\ UNCHANGED mainVars
    /\ UNCHANGED <<budget, issued, nWrong>>

\* Lines 123-134, one iteration of runGet from the return of kv.Get on:
\* v, err := kv.Get(ctx, key); if err != nil { s.Err(err); continue };
\* if v != value { s.Err(fmt.Errorf("unexpected value: %s", v)); continue }; s.OK()
runGet(i) ==
    /\ Alive
    /\ wpc["get"][i] = "call"
    /\ \E r \in {kvGet(kvName, store, Key(i))} \cup
                {[v |-> "", err |-> e] : e \in BackendErrors(kvName, ctx["get"])} :
          /\ failed' = (failed \/ r.err # Nil)
          /\ nWrong' = IF r.err = Nil /\ r.v # Value(i)
                       THEN [nWrong EXCEPT ![i][ctx["get"]] = @ + 1]
                       ELSE nWrong
          /\ s' = [s EXCEPT !["get"] = runGetStats(@, r, Value(i))]
          /\ log' = runGetLog(log, r, Value(i))
          /\ calls' = [calls EXCEPT !["get"] = Tally(@, Kind(r, Value(i)))]
          /\ timedOut' = [timedOut EXCEPT !["get"] = IF r.err \in ExpiryErrors THEN @ + 1 ELSE @]
    /\ wpc' = [wpc EXCEPT !["get"][i] = "select"]
    /\ UNCHANGED <<kvName, store, ctx>>
    /\ UNCHANGED mainVars
    /\ UNCHANGED <<budget, issued, written>>

Next ==
    \/ MainSetup
    \/ MainWithTimeout
    \/ MainSpawn
    \/ MainDone
    \/ \E f \in {"ok", "err"} : MainLoad(f)
    \/ MainPrintTotal
    \/ MainPrintOps
    \/ MainPrintOk
    \/ MainPrintErr
    \/ \E p \in Phases : DeadlineFires(p)
    \/ \E p \in Phases, i \in Workers : WorkerReturns(p, i)
    \/ \E p \in Phases, i \in Workers : WorkerDefault(p, i)
    \/ \E i \in Workers : runSet(i)
    \/ \E i \in Workers : runGet(i)

Spec == Init /\ [][Next]_vars
SpecRedis == InitRedis /\ [][Next]_vars
SpecMock == InitMock /\ [][Next]_vars

\* Fair scheduling: main and every goroutine keep being scheduled, the timer
\* of a live context fires, and a backend call that has been made returns.
MainStep ==
    \/ MainSetup \/ MainWithTimeout \/ MainSpawn \/ MainDone
    \/ \E f \in {"ok", "err"} : MainLoad(f)
    \/ MainPrintTotal \/ MainPrintOps \/ MainPrintOk \/ MainPrintErr

FairSpec ==
    /\ Spec
    /\ WF_vars(MainStep)
    /\ \A p \in Phases : WF_vars(DeadlineFires(p))
    /\ \A p \in Phases, i \in Workers : WF_vars(WorkerReturns(p, i) \/ WorkerDefault(p, i))
    /\ \A i \in Workers : WF_vars(runSet(i)) /\ WF_vars(runGet(i))

TypeOK ==
    /\ mpc \in {"setup", "panic", "timeout", "spawn", "wait", "total", "ops", "ok",
                "err", "exit"}
    /\ \A p \in Phases, i \in Workers :
          wpc[p][i] \in {"unspawned", "select", "call", "done"}


\* ------------------------------------------------------------------ claims
\* Worker i of phase p ends an iteration in this step: its backend call has
\* returned and the result has gone through Stats.
Iterates(p, i) == wpc[p][i] = "call" /\ wpc'[p][i] = "select"

\* The backend calls of phase p that have been made and have not returned.
InCall(p) == Cardinality({i \in Workers : wpc[p][i] = "call"})

\* Every worker of phase p has returned.
AllReturned(p) == \A i \in Workers : wpc[p][i] = "done"

\* main is past <-ctx.Done() of phase p.
PhaseOver(p) ==
    \/ p = phase /\ mpc \in {"total", "ops", "ok", "err", "exit"}
    \/ p = "set" /\ phase = "get"

\* main has loaded a counter of phase p for its summary.
ReadBegun(p) ==
    \/ p = phase /\ mpc \in {"ops", "ok", "err", "exit"}
    \/ p = phase /\ mpc = "total" /\ reg # NoLoads
    \/ p = "set" /\ phase = "get"

\* C1: whatever the interleaving of the workers, after k calls of Stats.OK and
\* m calls of Stats.Err with errors that are not deadline-exceeded the counters
\* of the phase are ok = k and err = m: no increment is lost.
C1_NoLostUpdate ==
    \A p \in Phases : s[p].ok = calls[p].ok /\ s[p].err = calls[p].err

\* Both counters of one phase have been incremented.
C1_Witness ==
    \E p \in Phases : calls[p].ok >= 1 /\ calls[p].err >= 1 /\ s[p].ok + s[p].err = 2

\* C2: Stats.Err with an error whose chain holds context.DeadlineExceeded
\* changes neither counter and prints nothing.
C2_DeadlineDiscarded ==
    [][\A p \in Phases :
          calls'[p].dropped > calls[p].dropped => s' = s /\ log' = log]_vars

\* A deadline-exceeded error has gone through Stats.Err.
C2_Witness == \E p \in Phases : calls[p].dropped >= 1

\* C3: Stats.Err with an error whose chain does not hold
\* context.DeadlineExceeded adds exactly one to the error counter, prints
\* exactly one line and leaves the success counter as it was.
C3_OtherErrorCounted ==
    [][\A p \in Phases :
          calls'[p].err > calls[p].err =>
             /\ s'[p].err = s[p].err + 1
             /\ s'[p].ok = s[p].ok
             /\ \E m \in BagToSet(log') : log' = log (+) SetToBag({m})]_vars

\* An error that is not deadline-exceeded has gone through Stats.Err.
C3_Witness == \E p \in Phases : calls[p].err >= 1 /\ BagCardinality(log) >= 1

\* C4: a call that fails only because the phase's deadline has fired is
\* discarded, whichever error the backend reports for it (a cancellation or a
\* deadline-exceeded condition): the error counter stays and nothing is printed.
C4_ExpiryDiscarded ==
    [][\A p \in Phases :
          timedOut'[p] > timedOut[p] => s'[p].err = s[p].err /\ log' = log]_vars

\* C5: in runGet of worker i, a Get that returns without error a value other
\* than value_<i> adds exactly one to the error counter and nothing to the
\* success counter, also when the phase's deadline has already fired.
C5_MismatchCounted ==
    [][\A i \in Workers :
          Iterates("get", i) /\ nWrong'[i] # nWrong[i] =>
             /\ s'["get"].err = s["get"].err + 1
             /\ s'["get"].ok = s["get"].ok]_vars

\* A mismatch has been counted after the read-verify deadline fired.
C5_Witness ==
    \E i \in Workers : nWrong[i].done >= 1 /\ s["get"].err >= 1


\* C6: exactly one phase executes at a time: once a worker of the read-verify
\* phase has been spawned, every worker of the write phase has returned.
C6_OnePhaseAtATime ==
    (\E i \in Workers : wpc["get"][i] # "unspawned") =>
        \A i \in Workers : wpc["set"][i] = "done"

\* C7: from the moment main loads a phase's counters for the summary, neither
\* counter of that phase is written any more.
C7_NoWriteAfterRead ==
    [][\A p \in Phases : ReadBegun(p) => s'[p] = s[p]]_vars

\* C8: every iteration of a worker whose backend call has returned, with or
\* without error, adds exactly one to exactly one of the two counters.
C8_ExactlyOneIncrement ==
    [][\A p \in Phases, i \in Workers :
          Iterates(p, i) => s'[p].ok + s'[p].err = s[p].ok + s[p].err + 1]_vars

\* C8 as amended: the iteration adds exactly one to exactly one counter of its
\* own phase, unless the call returned an error with context.DeadlineExceeded
\* in its chain: then it changes no counter. It never touches the other phase.
C8_OneIncrementUnlessDeadline ==
    [][\A p \in Phases, i \in Workers :
          Iterates(p, i) =>
             /\ \A q \in Phases \ {p} : s'[q] = s[q]
             /\ IF calls'[p].dropped > calls[p].dropped
                THEN s'[p] = s[p]
                ELSE \/ s'[p].ok = s[p].ok + 1 /\ s'[p].err = s[p].err
                     \/ s'[p].err = s[p].err + 1 /\ s'[p].ok = s[p].ok]_vars

\* One phase has seen an iteration that counted and one that was dropped.
C8_Witness ==
    \E p \in Phases : calls[p].dropped >= 1 /\ calls[p].ok + calls[p].err >= 1

\* C9: with a backend whose calls always succeed, after the write phase the
\* error counter is 0, the success counter is the number of Set attempts made
\* and every key_<i> maps to value_<i>. Stated of the states in which every
\* worker of the write phase has returned, where no call is in flight any more.
C9_AfterWritePhase ==
    (PhaseOver("set") /\ ~failed /\ AllReturned("set")) =>
        /\ s["set"].err = 0
        /\ s["set"].ok = issued["set"]
        /\ \A i \in Workers : store[Key(i)] = Value(i)

\* C9 as amended: with a backend whose calls always succeed, the write phase's
\* error counter is 0, its success counter is the number of Set attempts made
\* less the Set calls still in flight, and key_<i> maps to value_<i> for every
\* worker i one of whose Set calls has returned.
C9_WritePhaseCounts ==
    ~failed =>
        /\ s["set"].err = 0
        /\ s["set"].ok + InCall("set") = issued["set"]
        /\ \A i \in written : store[Key(i)] = Value(i)

\* The write phase is over, nothing failed and every worker has written its key.
C9_Witness ==
    /\ PhaseOver("set")
    /\ ~failed
    /\ written = Workers
    /\ s["set"].ok = n
    /\ AllReturned("set")

\* The Get calls that returned, without error, a value other than value_<i>.
RECURSIVE WrongUpTo(_)
WrongUpTo(k) ==
    IF k = 0 THEN 0 ELSE nWrong[k - 1].live + nWrong[k - 1].done + WrongUpTo(k - 1)
WrongGets == WrongUpTo(n)

\* C10: with a backend whose calls always succeed, the read-verify phase
\* reports error counter 0 and success counter = the Get attempts made, for
\* every interleaving of the workers and the two deadlines. Stated of the runs
\* in which the total of either summary covers every attempt of its phase, so
\* that no call was in flight when main loaded the counters.
C10_ReadPhaseClean ==
    (mpc = "exit" /\ ~failed /\ printed["get"].total = issued["get"]
                 /\ printed["set"].total = issued["set"]) =>
        /\ printed["get"].err = 0
        /\ printed["get"].ok = issued["get"]

\* C10 as amended: with a backend whose calls always succeed, the read-verify
\* phase's error counter is the number of Get calls that returned a value other
\* than value_<i>, there is no such call for a key that held value_<i> when the
\* phase began, and the two counters add up to the Get attempts made less the
\* Get calls still in flight.
C10_ReadPhaseCounts ==
    ~failed =>
        /\ s["get"].err = WrongGets
        /\ \A i \in seeded : nWrong[i].live + nWrong[i].done = 0
        /\ s["get"].ok + s["get"].err + InCall("get") = issued["get"]

\* The run has ended without a failure, with a key written in the write phase
\* read back and counted as a success.
C10_Witness ==
    /\ mpc = "exit"
    /\ ~failed
    /\ seeded # {}
    /\ s["get"].ok >= 1
    /\ printed["get"].ok >= 1

\* C11 (as amended): with a backend that never fails and whose get answers a
\* wrong value for the key of one worker and the stored value for every other
\* key, every get of that worker adds one to the error counter and nothing to
\* the success counter, so the error counter is at least 1 from that worker's
\* first completed get on, and every get of another worker that returns the
\* expected value adds one to the success counter.
C11_FaultCounted ==
    [][ /\ Iterates("get", FaultyWorker) =>
              /\ s'["get"].ok = s["get"].ok
              /\ s'["get"].err = s["get"].err + 1
        /\ nWrong'[FaultyWorker].live + nWrong'[FaultyWorker].done >= 1 =>
              s'["get"].err >= 1
        /\ \A i \in Workers \ {FaultyWorker} :
              Iterates("get", i) /\ kvGet(kvName, store, Key(i)).v = Value(i) =>
                 s'["get"].ok = s["get"].ok + 1 ]_vars

\* The run has ended with the fault counted in the printed summary next to a
\* success of another worker.
C11_Witness ==
    /\ mpc = "exit"
    /\ nWrong[FaultyWorker].live + nWrong[FaultyWorker].done >= 1
    /\ printed["get"].err >= 1
    /\ printed["get"].ok >= 1

\* C11 as stated: the read-verify phase ends with an error counter of at least
\* 1, here in runs in which every worker has returned before main does.
C11_ErrorAtEnd ==
    mpc = "exit" /\ AllReturned("set") /\ AllReturned("get") =>
       s["get"].err >= 1 /\ printed["get"].err >= 1

\* C12: no worker of either phase is spawned before Setup has returned without
\* error; when Setup returns an error the run aborts: no phase context is
\* derived, no worker is spawned and no set or get call is issued.
C12_SetupFirst ==
    mpc = "setup" \/ setupErr # Nil =>
       /\ ctx = PerPhase("nil")
       /\ wpc = PerWorker("unspawned")
       /\ issued = PerPhase(0)
       /\ budget = CallBudget(kvName)
       /\ setupErr # Nil => mpc = "panic"

\* Setup has failed and main has panicked.
C12_Witness == mpc = "panic" /\ setupErr # Nil

\* C13: no backend failure ends a worker or a phase early. A worker that has
\* been spawned and has not returned is in a call or at the top of its loop,
\* where it can issue another call while the context is not done, whatever its
\* earlier calls returned; a worker has only returned if the deadline of its
\* phase has fired; main is only past <-ctx.Done() of a phase whose deadline
\* has fired, and has only panicked on an error of Setup.
C13_FailuresDoNotStop ==
    /\ \A p \in Phases, i \in Workers :
          /\ wpc[p][i] \in {"unspawned", "select", "call", "done"}
          /\ wpc[p][i] = "done" => ctx[p] = "done"
          /\ wpc[p][i] = "select" /\ ctx[p] = "live" /\ Alive /\ budget > 0 =>
                ENABLED WorkerDefault(p, i)
    /\ \A p \in Phases : PhaseOver(p) => ctx[p] = "done"
    /\ mpc = "panic" => setupErr # Nil /\ ~failed

\* The only worker spawned so far has had a call fail and has issued another.
C13_Witness ==
    /\ failed
    /\ issued["set"] >= 2
    /\ \E i \in Workers :
          /\ wpc["set"][i] = "call"
          /\ \A j \in Workers \ {i} : wpc["set"][j] = "unspawned"

\* C14: whatever the adapter behind kv, the answer to a Get that a worker has
\* in flight for a key the store does not hold is the empty value and no
\* error.
C14_AbsentIsEmpty ==
    \A i \in Workers :
       wpc["get"][i] = "call" /\ store[Key(i)] = None =>
          kvGet(kvName, store, Key(i)) = [v |-> "", err |-> Nil]

\* C15: a worker that finds the context of its phase done at the top of its
\* loop returns in that very step, which issues no backend call and changes
\* neither a counter, the store nor the output; a worker that has returned
\* takes no further step.
C15_ReturnsAtOnce ==
    [][ \A p \in Phases, i \in Workers :
           /\ wpc[p][i] = "select" /\ ctx[p] = "done" /\ wpc'[p][i] # "select" =>
                 /\ wpc'[p][i] = "done"
                 /\ s' = s /\ issued' = issued /\ store' = store /\ log' = log
           /\ wpc[p][i] = "done" => wpc'[p][i] = "done" ]_vars

\* A worker has returned after at least one call of its phase.
C15_Witness == \E p \in Phases, i \in Workers : wpc[p][i] = "done" /\ issued[p] >= 1

\* C16: under fair scheduling, with every backend call returning, every worker
\* of a phase returns once the deadline of the phase has fired: when the run
\* is over, no worker that was spawned is left in its loop or in a call.
C16_WorkersReturn ==
    mpc = "exit" => \A p \in Phases, i \in Workers : wpc[p][i] = "done"

\* What does hold under fair scheduling: a worker returns unless the process
\* ends first, and after the deadline of its phase has fired it starts no call
\* (the one it may still have in flight passed the check before).
C16_ReturnsOrProcessEnds ==
    \A p \in Phases, i \in Workers :
       wpc[p][i] \in {"select", "call"} ~> (wpc[p][i] = "done" \/ mpc = "exit")

\* The workers of phase p that main has spawned.
Spawned(p) == {i \in Workers : wpc[p][i] # "unspawned"}

\* C17: each phase spawns one worker for each index 0..n-1, in that order and
\* none twice, the keys of distinct workers are distinct, and worker i only
\* touches key_i: in every state after Setup the store maps key_i to nothing
\* or to value_i, for every i, and holds no other key.
C17_OwnKeysOnly ==
    /\ Cardinality(Keys) = n
    /\ \A p \in Phases :
          /\ ctx[p] = "nil" => Spawned(p) = {}
          /\ p = phase /\ mpc = "spawn" => Spawned(p) = 0 .. (spawnI - 1)
          /\ PhaseOver(p) \/ (p = phase /\ mpc = "wait") => Spawned(p) = Workers
    /\ mpc \notin {"setup", "panic"} =>
          /\ \A i \in Workers : store[Key(i)] \in {None, Value(i)}
          /\ \A k \in DOMAIN store \ Keys : store[k] = None

\* Every worker has stored its value, and the read-verify phase has begun.
C17_Witness ==
    /\ phase = "get"
    /\ written = Workers
    /\ \A i \in Workers : store[Key(i)] = Value(i)

\* C18: each phase has a Stats of its own. Its counters are 0 until the phase
\* begins, never decrease, and change only in a step in which a worker of
\* that phase ends an iteration: a write-phase worker still running during
\* the read-verify phase leaves the read-verify counters alone.
C18_OwnStats ==
    [][ \A p \in Phases :
           /\ ctx[p] = "nil" => s[p] = [ok |-> 0, err |-> 0]
           /\ s'[p].ok >= s[p].ok /\ s'[p].err >= s[p].err
           /\ s'[p] # s[p] => \E i \in Workers : Iterates(p, i)
           /\ \A i \in Workers :
                 Iterates("set", i) => s'["get"] = s["get"] ]_vars

\* A write-phase worker has stored its value after the read-verify phase
\* began, and the read-verify counters have counted a get since.
C18_Witness ==
    /\ phase = "get"
    /\ ctx["get"] # "nil"
    /\ written \ seeded # {}
    /\ s["get"].ok + s["get"].err >= 1

\* C19: in the summary of each phase the printed total equals the printed ok
\* count plus the printed err count, however main's loads of the counters
\* interleave with the workers' increments.
C19_TotalIsSum ==
    \A p \in Phases :
       printed[p].err # Unread => printed[p].total = printed[p].ok + printed[p].err

\* The backend calls of phase p that have returned.
Returned(p) == issued[p] - InCall(p)

\* C20: in every reachable state ok + err of a phase is at most the number of
\* the phase's backend calls that have returned, and once all its workers have
\* returned that number equals ok + err plus the number of calls that failed
\* with a deadline-exceeded error.
C20_CountersVsCalls ==
    \A p \in Phases :
       /\ s[p].ok + s[p].err <= Returned(p)
       /\ AllReturned(p) => Returned(p) = s[p].ok + s[p].err + calls[p].dropped

\* All workers of a phase have returned after a call that was counted and a
\* call that failed with a deadline-exceeded error.
C20_Witness ==
    \E p \in Phases :
       AllReturned(p) /\ calls[p].dropped >= 1 /\ s[p].ok + s[p].err >= 1
====
